---- MODULE Spec2Model ----
(***************************************************************************)
(* tplan: the tree builder (buildTreeNodes), the navigation state machine  *)
(* (Model.Update) and the viewport engine (Model.adjustViewport) of the    *)
(* terminal viewer, internal/tui/tui.go (src/unnamed/part_003, the second  *)
(* package tui of that file, lines 604-1919).                              *)
(***************************************************************************)
EXTENDS Integers, Sequences, FiniteSets, TLC

VARIABLES
    pc,            \* "parse": plan.Resources is being filled; "run": the Model exists; "panic": a Go runtime panic ended the program
    resources,     \* plan.Resources
    nodes,         \* Model.nodes
    cursor,        \* Model.cursor
    viewMode,      \* Model.viewMode
    viewportTop,   \* Model.viewportTop
    viewportSize   \* Model.viewportSize

vars == <<pc, resources, nodes, cursor, viewMode, viewportTop, viewportSize>>

-----------------------------------------------------------------------------
(* Bounds of the model.                                                    *)

\* Longest plan.Resources the ingestion builds.
MaxResources == 3

\* Largest row budget (viewportSize) the first WindowSizeMsg sets.
MaxBudget == 6

-----------------------------------------------------------------------------
(* Program constants.                                                      *)

ViewChanges == 0
ViewErrors == 1
ViewWarnings == 2

\* The rows Update subtracts from the window height.
ChromeRows == 10

\* The row budget NewModel sets before the first WindowSizeMsg.
DefaultViewportSize == 20

\* renderValue and renderDiffValue stop below this depth.
MaxRenderDepth == 5

ActionCreate == "create"
ActionUpdate == "update"
ActionDelete == "delete"
ActionReplace == "replace"
ActionRead == "read"
ActionNoOp == "no-op"

-----------------------------------------------------------------------------
(* Strings.  Go compares strings bytewise; Lexicon lists every string the  *)
(* model sorts (addresses, module names, file names) in that order.        *)

Lexicon ==
    << "", "a", "a.tf", "b", "b.tf", "c", "d", "m", "root", "unknown.tf",
       "x.1", "x.2", "y.1", "z.1" >>

Rank(s) == CHOOSE i \in 1..Len(Lexicon) : Lexicon[i] = s

\* s < t on Go strings
StrLess(s, t) == Rank(s) < Rank(t)

\* sort.Strings over the keys of a map
RECURSIVE SortStrings(_)
SortStrings(S) ==
    IF S = {} THEN <<>>
    ELSE LET least == CHOOSE s \in S : \A t \in S : ~StrLess(t, s)
         IN  <<least>> \o SortStrings(S \ {least})

\* sort.Slice(moduleResources, Address less): insertion of each element
\* before the first element that is not smaller.
\* the insertion without the comparison: the list keeps no address order
InsertByAddress_Front(res, sorted) == <<res>> \o sorted

RECURSIVE InsertByAddress(_, _)
InsertByAddress(res, sorted) ==
    IF sorted = <<>> THEN <<res>>
    ELSE IF StrLess(Head(sorted).Address, res.Address)
         THEN <<Head(sorted)>> \o InsertByAddress(res, Tail(sorted))
         ELSE <<res>> \o sorted

\* the sort left out
SortByAddress_None(rs) == rs

RECURSIVE SortByAddress(_)
SortByAddress(rs) ==
    IF rs = <<>> THEN <<>>
    ELSE InsertByAddress(Head(rs), SortByAddress(Tail(rs)))

RECURSIVE Concat(_)
Concat(ss) == IF ss = <<>> THEN <<>> ELSE Head(ss) \o Concat(Tail(ss))

Range(s) == { s[i] : i \in 1..Len(s) }

-----------------------------------------------------------------------------
(* models.ResourceChange.  FilePath is DriftInfo.FilePath split at "/"     *)
(* (<<>> when DriftInfo is nil or FilePath is empty), IsTracked,           *)
(* DriftError and HasUncommittedChanges are the other fields of DriftInfo  *)
(* the viewer reads; Index is nil, a number or a string.                   *)

NilIndex == [kind |-> "nil"]
IntIndex(n) == [kind |-> "number", n |-> n]
StrIndex(s) == [kind |-> "string", s |-> s]

\* The empty attribute map.
NoAttrs == <<>>

ResourceChange(addr, type, provider, module, action, index, path) ==
    [ Address |-> addr, Type |-> type, Name |-> addr, Module |-> module,
      Mode |-> "managed", ProviderName |-> provider, Action |-> action,
      Index |-> index, FilePath |-> path,
      IsTracked |-> FALSE, DriftError |-> "", HasUncommittedChanges |-> FALSE,
      Before |-> NoAttrs, After |-> NoAttrs ]

\* fmt.Sprintf("%v", idx) of a non-nil index
FormatIndex(idx) ==
    IF idx.kind = "number" THEN ToString(idx.n) ELSE idx.s

\* the predicate that takes an absent index for a mismatch and compares
\* present indices with their types
indexMatches_Strict(idx1, idx2) ==
    IF idx1.kind = "nil" \/ idx2.kind = "nil" THEN FALSE
    ELSE idx1 = idx2

indexMatches(idx1, idx2) ==
    IF idx1.kind = "nil" /\ idx2.kind = "nil" THEN TRUE
    ELSE IF idx1.kind = "nil" \/ idx2.kind = "nil" THEN FALSE
    ELSE FormatIndex(idx1) = FormatIndex(idx2)

getResourceFileName(res) ==
    IF res.FilePath # <<>>
    THEN res.FilePath[Len(res.FilePath)]
    ELSE "unknown.tf"

RECURSIVE findReplacementFile(_, _)
findReplacementFile(deletedRes, allResources) ==
    IF allResources = <<>> THEN ""
    ELSE LET res == Head(allResources)
         IN  IF /\ res.Action = ActionCreate
                /\ res.Type = deletedRes.Type
                /\ indexMatches(res.Index, deletedRes.Index)
                /\ getResourceFileName(res) # "unknown.tf"
             THEN getResourceFileName(res)
             ELSE findReplacementFile(deletedRes, Tail(allResources))

-----------------------------------------------------------------------------
(* buildTreeNodes                                                          *)

TreeNode(res, level, children) ==
    [ Resource |-> res, Expanded |-> FALSE, Children |-> children, Level |-> level ]

\* a leaf node per resource, in order
LeafNodes(rs, level) == [ i \in 1..Len(rs) |-> TreeNode(rs[i], level, <<>>) ]

\* the resource a grouping node carries
GroupResource(name, kind, module, firstRes) ==
    [ Address |-> name, Type |-> kind, Name |-> name, Module |-> module,
      Mode |-> kind, ProviderName |-> firstRes.ProviderName, Action |-> ActionNoOp,
      Index |-> NilIndex, FilePath |-> <<>>,
      IsTracked |-> FALSE, DriftError |-> "", HasUncommittedChanges |-> FALSE,
      Before |-> NoAttrs, After |-> NoAttrs ]

changingResources(rs) == SelectSeq(rs, LAMBDA res : res.Action # ActionNoOp)

ModuleKey(res) == IF res.Module = "" THEN "root" ELSE res.Module

\* moduleGroups[moduleName], sorted by address
moduleResources(rs, moduleName) ==
    SortByAddress(SelectSeq(changingResources(rs), LAMBDA res : ModuleKey(res) = moduleName))

moduleNames(rs) == SortStrings({ ModuleKey(res) : res \in Range(changingResources(rs)) })

\* first pass: the resources without a file
ungroupedFirst(mrs) ==
    SelectSeq(mrs, LAMBDA res : getResourceFileName(res) = "unknown.tf")

\* the second pass without its test of the action
Relocated_AnyAction(res, mrs) == findReplacementFile(res, mrs) # ""

\* second pass: whether an ungrouped resource moves into a file group
Relocated(res, mrs) ==
    res.Action = ActionDelete /\ findReplacementFile(res, mrs) # ""

\* fileGroups[fileName] after both passes: the resources of the file, then
\* the deleted resources relocated to it, each in the order of the pass
fileGroup(mrs, fileName) ==
    SelectSeq(mrs, LAMBDA res : getResourceFileName(res) = fileName)
    \o SelectSeq(ungroupedFirst(mrs),
                 LAMBDA res : Relocated(res, mrs) /\ findReplacementFile(res, mrs) = fileName)

\* the second pass without its else branches for a delete that finds no
\* replacement
remainingUngrouped_DropsDeletes(mrs) ==
    SelectSeq(ungroupedFirst(mrs), LAMBDA res : res.Action # ActionDelete)

\* ungroupedResources after the second pass
remainingUngrouped(mrs) ==
    SelectSeq(ungroupedFirst(mrs), LAMBDA res : ~Relocated(res, mrs))

\* the keys of fileGroups
fileGroupKeys(mrs) ==
    { getResourceFileName(res) : res \in Range(mrs) } \ {"unknown.tf"}

fileNodes(mrs, fileName) ==
    LET fileResources == fileGroup(mrs, fileName)
    IN  IF Cardinality(fileGroupKeys(mrs)) = 1 /\ remainingUngrouped(mrs) = <<>>
        THEN LeafNodes(fileResources, 0)
        ELSE IF Len(fileResources) > 0
             THEN << TreeNode(GroupResource(fileName, "file", "root", fileResources[1]),
                              0, LeafNodes(fileResources, 1)) >>
             ELSE <<>>

\* the root module with the resources without a file under a header of
\* their own
rootNodes_UnknownFile(mrs) ==
    LET fileNames == SortStrings(fileGroupKeys(mrs))
        rest == remainingUngrouped(mrs)
    IN  Concat([ i \in 1..Len(fileNames) |-> fileNodes(mrs, fileNames[i]) ])
        \o (IF rest = <<>> THEN <<>>
            ELSE << TreeNode(GroupResource("unknown.tf", "file", "root", rest[1]),
                             0, LeafNodes(rest, 1)) >>)

rootNodes(mrs) ==
    LET fileNames == SortStrings(fileGroupKeys(mrs))
    IN  Concat([ i \in 1..Len(fileNames) |-> fileNodes(mrs, fileNames[i]) ])
        \o LeafNodes(remainingUngrouped(mrs), 0)

\* the children of a module node given the level of their parent
moduleNodes_FlatChildren(mrs, moduleName) ==
    IF Len(mrs) > 0
    THEN << TreeNode(GroupResource(moduleName, "module", moduleName, mrs[1]),
                     0, LeafNodes(mrs, 0)) >>
    ELSE <<>>

moduleNodes(mrs, moduleName) ==
    IF Len(mrs) > 0
    THEN << TreeNode(GroupResource(moduleName, "module", moduleName, mrs[1]),
                     0, LeafNodes(mrs, 1)) >>
    ELSE <<>>

buildTreeNodes(rs) ==
    LET names == moduleNames(rs)
    IN  Concat([ i \in 1..Len(names) |->
                   IF names[i] = "root"
                   THEN rootNodes(moduleResources(rs, names[i]))
                   ELSE moduleNodes(moduleResources(rs, names[i]), names[i]) ])

-----------------------------------------------------------------------------
(* Attribute values (interface{} decoded from JSON): null, bool, number,   *)
(* string, map and list.                                                   *)

VNull == [kind |-> "null"]
VBool(b) == [kind |-> "bool", b |-> b]
VNum(n) == [kind |-> "number", n |-> n]
VStr(str) == [kind |-> "string", s |-> str]
VMap(m) == [kind |-> "map", m |-> m]
VList(l) == [kind |-> "list", l |-> l]

\* the keys of an attribute map, sorted (sort.Strings)
SortedKeys(m) == SortStrings(DOMAIN m)

\* renderDiffComparison shows strings above this length on rows of their
\* own and cuts other values to it
InlineLimit == 60

\* tryPrettyJSON wraps a string that is not JSON at this length
WrapLimit == 100

\* wrapStringSimple looks for a separator this far back from the limit
WrapLookBack == 20

Repeat(ch, n) == [ i \in 1..n |-> ch ]

\* The bytes of a string value.  "long.a" and "long.b" are as long as
\* InlineLimit plus one and differ in the last byte only; "wide.a" is as
\* long as WrapLimit plus one; every other string value of the model is
\* "<nil>" or a single byte.
StrBytes(str) ==
    CASE str = ""       -> <<>>
      [] str = "<nil>"  -> << "<", "n", "i", "l", ">" >>
      [] str = "long.a" -> Repeat("x", InlineLimit) \o << "a" >>
      [] str = "long.b" -> Repeat("x", InlineLimit) \o << "b" >>
      [] str = "wide.a" -> Repeat("x", WrapLimit) \o << "a" >>
      [] OTHER          -> << str >>

\* byte sequences joined with a space between them
RECURSIVE JoinSpace(_)
JoinSpace(parts) ==
    IF parts = <<>> THEN <<>>
    ELSE IF Len(parts) = 1 THEN parts[1]
    ELSE parts[1] \o << " " >> \o JoinSpace(Tail(parts))

\* fmt.Sprintf("%v", value), as bytes; the numbers of the model are whole
\* and of one digit
RECURSIVE FormatValue(_)
FormatValue(value) ==
    CASE value.kind = "null"   -> StrBytes("<nil>")
      [] value.kind = "bool"   ->
            IF value.b THEN << "t", "r", "u", "e" >> ELSE << "f", "a", "l", "s", "e" >>
      [] value.kind = "number" -> << ToString(value.n) >>
      [] value.kind = "string" -> StrBytes(value.s)
      [] value.kind = "map"    ->
            LET keys == SortedKeys(value.m)
            IN  << "m", "a", "p", "[" >>
                \o JoinSpace([ i \in 1..Len(keys) |->
                                 StrBytes(keys[i]) \o << ":" >> \o FormatValue(value.m[keys[i]]) ])
                \o << "]" >>
      [] value.kind = "list"   ->
            << "[" >>
            \o JoinSpace([ i \in 1..Len(value.l) |-> FormatValue(value.l[i]) ])
            \o << "]" >>

\* valueStr[:limit-3] + "..." for a value longer than the limit
Truncate(bytes, limit) ==
    IF Len(bytes) > limit
    THEN SubSeq(bytes, 1, limit - 3) \o << ".", ".", "." >>
    ELSE bytes

\* What a rendered line shows after its key: a scalar value written in
\* full (%q, %t, %d, null), a bracket, the marker of the depth cap, or bytes
\* written as they are.
Punct(str) == [kind |-> "punct", s |-> str]
DeeplyNested == [kind |-> "marker"]
Text(bytes) == [kind |-> "text", bytes |-> bytes]

\* one rendered line (a string ending in "\n"): its prefix ("+", "-", "~",
\* "|" for a row of two columns, or " "), nesting depth, key and what
\* follows the key; indentation, styling and column padding are layout
Line(prefix, depth, key, text) ==
    [ prefix |-> prefix, depth |-> depth, key |-> key, text |-> text ]

BlankLine == Line(" ", 0, "", <<>>)

\* the lines renderValue (prefix " ") and renderDiffValue ("+", "-") write;
\* a list item has the key "[i]", given here by its number
RECURSIVE renderDiffValue(_, _, _, _)
renderDiffValue(prefix, key, value, depth) ==
    IF depth > MaxRenderDepth
    THEN << Line(prefix, depth, key, << DeeplyNested >>) >>
    ELSE CASE value.kind = "map" ->
                IF DOMAIN value.m = {}
                THEN << Line(prefix, depth, key, << Punct("{}") >>) >>
                ELSE LET keys == SortedKeys(value.m)
                     IN  << Line(prefix, depth, key, << Punct("{") >>) >>
                         \o Concat([ i \in 1..Len(keys) |->
                                renderDiffValue(prefix, keys[i], value.m[keys[i]], depth + 1) ])
                         \o << Line(prefix, depth, "", << Punct("}") >>) >>
           [] value.kind = "list" ->
                IF value.l = <<>>
                THEN << Line(prefix, depth, key, << Punct("[]") >>) >>
                ELSE << Line(prefix, depth, key, << Punct("[") >>) >>
                     \o Concat([ i \in 1..Len(value.l) |->
                            renderDiffValue(prefix, ToString(i - 1), value.l[i], depth + 1) ])
                     \o << Line(prefix, depth, "", << Punct("]") >>) >>
           [] OTHER -> << Line(prefix, depth, key, << value >>) >>

renderValue(key, value, depth) == renderDiffValue(" ", key, value, depth)

renderAttributes(attrs) ==
    LET keys == SortedKeys(attrs)
    IN  Concat([ i \in 1..Len(keys) |-> renderValue(keys[i], attrs[keys[i]], 0) ])

\* wrapStringSimple followed by strings.Split at "\n": the lines of a
\* string cut at maxLen bytes, or after the last space, comma or semicolon
\* of the WrapLookBack bytes before the cut
RECURSIVE wrapStringSimple(_, _)
wrapStringSimple(remaining, maxLen) ==
    IF Len(remaining) <= maxLen THEN << remaining >>
    ELSE LET seps == { i \in 1..maxLen :
                         /\ i > maxLen - WrapLookBack
                         /\ remaining[i + 1] \in { " ", ",", ";" } }
             breakPoint == IF seps = {} THEN maxLen
                           ELSE 1 + CHOOSE i \in seps : \A j \in seps : j <= i
         IN  << SubSeq(remaining, 1, breakPoint) >>
             \o wrapStringSimple(SubSeq(remaining, breakPoint + 1, Len(remaining)), maxLen)

\* tryPrettyJSON followed by strings.Split at "\n".  The string values of
\* the model are not JSON, or are a JSON number that json.MarshalIndent
\* writes back as it is ("1"); a string holding a JSON object or array is
\* not among them.
tryPrettyJSON(bytes) == wrapStringSimple(bytes, WrapLimit)

\* renderSideBySideDiff: one row per line of the longer side
renderSideBySideDiff(depth, beforeLines, afterLines) ==
    LET maxLines == IF Len(afterLines) > Len(beforeLines)
                    THEN Len(afterLines) ELSE Len(beforeLines)
    IN  [ i \in 1..maxLines |->
            Line("|", depth, "",
                 << Text(IF i <= Len(beforeLines) THEN beforeLines[i] ELSE <<>>),
                    Text(IF i <= Len(afterLines) THEN afterLines[i] ELSE <<>>) >>) ]

\* a value as the inline form shows it: a scalar in full, a map or list by
\* its %v bytes cut to InlineLimit
InlineValue(value) ==
    IF value.kind \in { "map", "list" }
    THEN Text(Truncate(FormatValue(value), InlineLimit))
    ELSE value

\* the comparison that always finds a change
renderDiffComparison_NoCompare(key, before, after, depth) ==
    << Line("~", depth, key, << InlineValue(before), InlineValue(after) >>) >>

\* the comparison taken on the values as the inline form cuts them
renderDiffComparison_Truncated(key, before, after, depth) ==
    IF Truncate(FormatValue(before), InlineLimit) = Truncate(FormatValue(after), InlineLimit)
    THEN <<>>
    ELSE << Line("~", depth, key, << InlineValue(before), InlineValue(after) >>) >>

\* the lines renderDiffComparison writes for a key of both maps
renderDiffComparison(key, before, after, depth) ==
    IF depth > MaxRenderDepth
    THEN << Line("~", depth, key, << DeeplyNested >>) >>
    ELSE IF FormatValue(before) = FormatValue(after)
         THEN <<>>
         ELSE IF /\ before.kind = "string"
                 /\ after.kind = "string"
                 /\ \/ Len(StrBytes(before.s)) > InlineLimit
                    \/ Len(StrBytes(after.s)) > InlineLimit
              THEN << Line("~", depth, key, <<>>) >>
                   \o renderSideBySideDiff(depth, tryPrettyJSON(StrBytes(before.s)),
                                           tryPrettyJSON(StrBytes(after.s)))
              ELSE << Line("~", depth, key, << InlineValue(before), InlineValue(after) >>) >>

\* the diff that leaves out the keys of before that after lacks
renderAttributeDiff_DropsRemoved(before, after) ==
    LET keys == SortStrings(DOMAIN after)
    IN  Concat([ i \in 1..Len(keys) |->
            LET k == keys[i]
            IN  IF k \notin DOMAIN before
                THEN renderDiffValue("+", k, after[k], 0)
                ELSE renderDiffComparison(k, before[k], after[k], 0) ])

\* the diff that walks the keys of after before the other keys of before
renderAttributeDiff_AfterFirst(before, after) ==
    LET keys == SortStrings(DOMAIN after) \o SortStrings(DOMAIN before \ DOMAIN after)
    IN  Concat([ i \in 1..Len(keys) |->
            LET k == keys[i]
            IN  IF k \notin DOMAIN before /\ k \in DOMAIN after
                THEN renderDiffValue("+", k, after[k], 0)
                ELSE IF k \in DOMAIN before /\ k \notin DOMAIN after
                     THEN renderDiffValue("-", k, before[k], 0)
                     ELSE renderDiffComparison(k, before[k], after[k], 0) ])

renderAttributeDiff(before, after) ==
    LET keys == SortStrings(DOMAIN before \cup DOMAIN after)
    IN  Concat([ i \in 1..Len(keys) |->
            LET k == keys[i]
            IN  IF k \notin DOMAIN before /\ k \in DOMAIN after
                THEN renderDiffValue("+", k, after[k], 0)
                ELSE IF k \in DOMAIN before /\ k \notin DOMAIN after
                     THEN renderDiffValue("-", k, before[k], 0)
                     ELSE renderDiffComparison(k, before[k], after[k], 0) ])

\* DriftInfo.IsValid
IsValid(res) == res.DriftError = "" /\ res.IsTracked

\* the lines of renderResourceDetails
renderResourceDetails(res) ==
    << Line(" ", 0, "Type:", << res.Type >>),
       Line(" ", 0, "Provider:", << res.ProviderName >>),
       Line(" ", 0, "Mode:", << res.Mode >>) >>
    \o (IF res.FilePath # <<>>
        THEN << BlankLine, Line(" ", 0, "File Information:", <<>>) >>
             \o (IF IsValid(res)
                 THEN << Line(" ", 1, "File:", res.FilePath),
                         Line(" ", 1, "Branch:", <<>>),
                         Line(" ", 1, "Author:", <<>>),
                         Line(" ", 1, "Date:", <<>>) >>
                 ELSE << Line(" ", 1, "File:", res.FilePath) >>)
             \o (IF res.HasUncommittedChanges
                 THEN << Line(" ", 1, "Status:", <<>>) >>
                 ELSE <<>>)
             \o << BlankLine >>
        ELSE <<>>)
    \o (IF res.Action = ActionCreate THEN renderAttributes(res.After)
        ELSE IF res.Action = ActionDelete THEN renderAttributes(res.Before)
        ELSE IF res.Action \in {ActionUpdate, ActionReplace}
             THEN renderAttributeDiff(res.Before, res.After)
             ELSE <<>>)
    \o << BlankLine >>

-----------------------------------------------------------------------------
(* The visible node sequence and the viewport.                             *)

\* the flattening in which a child is present when its own flag is set
VisiblePaths_ChildFlag(ns) ==
    Concat([ i \in 1..Len(ns) |->
        << <<i, 0>> >>
        \o SelectSeq([ j \in 1..Len(ns[i].Children) |-> <<i, j>> ],
                     LAMBDA path : ns[i].Children[path[2]].Expanded) ])

\* where each visible node is: <<i, 0>> is nodes[i], <<i, j>> its j-th child
VisiblePaths(ns) ==
    Concat([ i \in 1..Len(ns) |->
        << <<i, 0>> >>
        \o (IF ns[i].Expanded /\ Len(ns[i].Children) > 0
            THEN [ j \in 1..Len(ns[i].Children) |-> <<i, j>> ]
            ELSE <<>>) ])

NodeAt(ns, path) ==
    IF path[2] = 0 THEN ns[path[1]] ELSE ns[path[1]].Children[path[2]]

getVisibleNodes(ns) ==
    LET paths == VisiblePaths(ns)
    IN  [ k \in 1..Len(paths) |-> NodeAt(ns, paths[k]) ]

\* the byte "\n" of a rendered string
Newline == [kind |-> "newline"]

\* a sequence of lines as one string: every written line ends with "\n",
\* a blank line is the "\n" alone
Terminated(lines) ==
    Concat([ i \in 1..Len(lines) |->
               IF lines[i] = BlankLine THEN << Newline >> ELSE << lines[i], Newline >> ])

\* the string renderResourceDetails returns (the lines are bound once)
detailsContent(res) ==
    CHOOSE str \in { Terminated(lines) : lines \in { renderResourceDetails(res) } } : TRUE

\* strings.Count(str, "\n")
CountNewlines(str) == Len(SelectSeq(str, LAMBDA b : b = Newline))

\* strings.TrimSuffix(str, "\n")
TrimSuffix(str) ==
    IF str # <<>> /\ str[Len(str)] = Newline THEN SubSeq(str, 1, Len(str) - 1) ELSE str

\* strings.Split(str, "\n"): the pieces between the newlines, one more
\* than there are newlines
RECURSIVE Split(_)
Split(str) ==
    LET breaks == { i \in 1..Len(str) : str[i] = Newline }
    IN  IF breaks = {} THEN << str >>
        ELSE LET first == CHOOSE i \in breaks : \A j \in breaks : i <= j
             IN  << SubSeq(str, 1, first - 1) >> \o Split(SubSeq(str, first + 1, Len(str)))

\* whether the details of a visible node are shown
ShowsDetails(node) ==
    node.Expanded /\ (node.Level = 0 \/ node.Resource.Type # "module")

\* the lines a visible node takes: its own line and, when expanded, one
\* per "\n" of its details
NodeLines(node) ==
    1 + (IF ShowsDetails(node)
         THEN CountNewlines(detailsContent(node.Resource))
         ELSE 0)

RECURSIVE SumLines(_, _)
\* the lines of the first n nodes of a sequence
SumLines(visible, n) ==
    IF n <= 0 \/ visible = <<>> THEN 0
    ELSE NodeLines(Head(visible)) + SumLines(Tail(visible), n - 1)

\* adjustViewport that scrolls a node below the window to the top row
\* whether the node fits the budget or not
adjustViewport_HeaderFirst(ns, cur, top, size) ==
    LET visibleNodes == getVisibleNodes(ns)
    IN  IF Len(visibleNodes) = 0
        THEN [ cursor |-> cur, viewportTop |-> 0 ]
        ELSE LET c == IF cur >= Len(visibleNodes) THEN Len(visibleNodes) - 1
                      ELSE IF cur < 0 THEN 0 ELSE cur
                 cursorLineStart == SumLines(visibleNodes, c)
                 currentNodeLines == NodeLines(visibleNodes[c + 1])
                 cursorLineEnd == cursorLineStart + currentNodeLines - 1
                 t == IF cursorLineStart < top
                      THEN cursorLineStart
                      ELSE IF cursorLineEnd >= top + size
                           THEN cursorLineStart
                           ELSE top
             IN  [ cursor |-> c, viewportTop |-> IF t < 0 THEN 0 ELSE t ]

\* adjustViewport without the branch for a node above the window
adjustViewport_NoScrollUp(ns, cur, top, size) ==
    LET visibleNodes == getVisibleNodes(ns)
    IN  IF Len(visibleNodes) = 0
        THEN [ cursor |-> cur, viewportTop |-> 0 ]
        ELSE LET c == IF cur >= Len(visibleNodes) THEN Len(visibleNodes) - 1
                      ELSE IF cur < 0 THEN 0 ELSE cur
                 cursorLineStart == SumLines(visibleNodes, c)
                 currentNodeLines == NodeLines(visibleNodes[c + 1])
                 cursorLineEnd == cursorLineStart + currentNodeLines - 1
                 t == IF cursorLineEnd >= top + size
                      THEN IF currentNodeLines <= size
                           THEN cursorLineEnd - size + 1
                           ELSE cursorLineStart
                      ELSE top
             IN  [ cursor |-> c, viewportTop |-> IF t < 0 THEN 0 ELSE t ]

\* adjustViewport that scrolls to the last line of the cursor node whether
\* the node fits the budget or not
adjustViewport_Tail(ns, cur, top, size) ==
    LET visibleNodes == getVisibleNodes(ns)
    IN  IF Len(visibleNodes) = 0
        THEN [ cursor |-> cur, viewportTop |-> 0 ]
        ELSE LET c == IF cur >= Len(visibleNodes) THEN Len(visibleNodes) - 1
                      ELSE IF cur < 0 THEN 0 ELSE cur
                 cursorLineStart == SumLines(visibleNodes, c)
                 currentNodeLines == NodeLines(visibleNodes[c + 1])
                 cursorLineEnd == cursorLineStart + currentNodeLines - 1
                 t == IF cursorLineStart < top
                      THEN cursorLineStart
                      ELSE IF cursorLineEnd >= top + size
                           THEN cursorLineEnd - size + 1
                           ELSE top
             IN  [ cursor |-> c, viewportTop |-> IF t < 0 THEN 0 ELSE t ]

\* Model.adjustViewport: the cursor and viewportTop it returns
adjustViewport(ns, cur, top, size) ==
    LET visibleNodes == getVisibleNodes(ns)
    IN  IF Len(visibleNodes) = 0
        THEN [ cursor |-> cur, viewportTop |-> 0 ]
        ELSE LET c == IF cur >= Len(visibleNodes) THEN Len(visibleNodes) - 1
                      ELSE IF cur < 0 THEN 0 ELSE cur
                 cursorLineStart == SumLines(visibleNodes, c)
                 currentNodeLines == NodeLines(visibleNodes[c + 1])
                 cursorLineEnd == cursorLineStart + currentNodeLines - 1
                 t == IF cursorLineStart < top
                      THEN cursorLineStart
                      ELSE IF cursorLineEnd >= top + size
                           THEN IF currentNodeLines <= size
                                THEN cursorLineEnd - size + 1
                                ELSE cursorLineStart
                           ELSE top
             IN  [ cursor |-> c, viewportTop |-> IF t < 0 THEN 0 ELSE t ]

-----------------------------------------------------------------------------
(* Model.renderChangesView: the lines of the visible nodes, then the       *)
(* window on them.                                                         *)

\* the line of a node: selector, indentation, expand icon, address and
\* child count
renderTreeNode(node, selected) ==
    [ kind |-> "node", selected |-> selected, level |-> node.Level,
      expandIcon |-> IF \/ Len(node.Children) > 0
                        \/ (node.Resource.Type \notin {"module", "file"} /\ node.Level = 0)
                     THEN IF node.Expanded THEN "open" ELSE "closed"
                     ELSE "none",
      address |-> node.Resource.Address,
      children |-> IF node.Resource.Type \in {"module", "file"} \/ node.Level = 0
                   THEN Len(node.Children) ELSE 0 ]

\* the details split without the cut of the final "\n"
detailLines_NoTrim(content) ==
    IF content = <<>> THEN <<>> ELSE Split(content)

\* if detailsContent != "": strings.Split(strings.TrimSuffix(detailsContent,
\* "\n"), "\n")
detailLines(content) ==
    IF content = <<>> THEN <<>> ELSE Split(TrimSuffix(content))

\* what one visible node appends to allLines
linesOfNode(node, selected) ==
    << renderTreeNode(node, selected) >>
    \o (IF ShowsDetails(node) THEN detailLines(detailsContent(node.Resource)) ELSE <<>>)

allLines(ns, cur) ==
    LET visibleNodes == getVisibleNodes(ns)
    IN  Concat([ i \in 1..Len(visibleNodes) |-> linesOfNode(visibleNodes[i], i - 1 = cur) ])

\* Model.getTotalRenderedLines
getTotalRenderedLines(ns) == SumLines(getVisibleNodes(ns), Len(getVisibleNodes(ns)))

\* the lines renderChangesView writes: allLines[viewportTop:viewportEnd]
renderChangesView(ns, cur, top, size) ==
    LET lines == allLines(ns, cur)
        viewportEnd == IF top + size > Len(lines) THEN Len(lines) ELSE top + size
    IN  SubSeq(lines, top + 1, viewportEnd)

-----------------------------------------------------------------------------
(* Model.Update, one action per key.  The cursor is a Go index: the first  *)
(* visible node is at cursor 0.                                            *)

Adjusted(ns, cur) ==
    LET m == adjustViewport(ns, cur, viewportTop, viewportSize)
    IN  cursor' = m.cursor /\ viewportTop' = m.viewportTop

\* "up", "k"
KeyUp ==
    /\ pc = "run"
    /\ IF cursor > 0
       THEN Adjusted(nodes, cursor - 1)
       ELSE UNCHANGED <<cursor, viewportTop>>
    /\ UNCHANGED <<pc, resources, nodes, viewMode, viewportSize>>

\* move-down that wraps to the first node past the last one
KeyDown_Wraps ==
    /\ pc = "run"
    /\ IF cursor < Len(getVisibleNodes(nodes)) - 1
       THEN Adjusted(nodes, cursor + 1)
       ELSE Adjusted(nodes, 0)
    /\ UNCHANGED <<pc, resources, nodes, viewMode, viewportSize>>

\* "down", "j"
KeyDown ==
    /\ pc = "run"
    /\ IF cursor < Len(getVisibleNodes(nodes)) - 1
       THEN Adjusted(nodes, cursor + 1)
       ELSE UNCHANGED <<cursor, viewportTop>>
    /\ UNCHANGED <<pc, resources, nodes, viewMode, viewportSize>>

\* the flip applied to the top-level node above the path
Toggled_Parent(ns, path) == [ ns EXCEPT ![path[1]].Expanded = ~@ ]

\* nodes with the Expanded flag of the node at a path flipped
Toggled(ns, path) ==
    IF path[2] = 0
    THEN [ ns EXCEPT ![path[1]].Expanded = ~@ ]
    ELSE [ ns EXCEPT ![path[1]].Children[path[2]].Expanded = ~@ ]

\* "enter", " ": visibleNodes[m.cursor] with a negative cursor is an index
\* out of range, a runtime panic
KeyEnter ==
    /\ pc = "run"
    /\ IF cursor < Len(getVisibleNodes(nodes))
       THEN IF cursor < 0
            THEN /\ pc' = "panic"
                 /\ UNCHANGED <<nodes, cursor, viewportTop>>
            ELSE /\ nodes' = Toggled(nodes, VisiblePaths(nodes)[cursor + 1])
                 /\ Adjusted(nodes', cursor)
                 /\ UNCHANGED pc
       ELSE UNCHANGED <<pc, nodes, cursor, viewportTop>>
    /\ UNCHANGED <<resources, viewMode, viewportSize>>

\* m.viewMode = (m.viewMode + 1) % 3
NextView(mode) == (mode + 1) % 3

\* the step back without the wrap at the first view
PrevView_NoWrap(mode) == IF mode = 0 THEN 0 ELSE mode - 1

\* if m.viewMode == 0 { m.viewMode = 2 } else { m.viewMode-- }
PrevView(mode) == IF mode = 0 THEN 2 ELSE mode - 1

\* "tab" that keeps the cursor and the viewport where they are
KeyTab_KeepsPlace ==
    /\ pc = "run"
    /\ viewMode' = NextView(viewMode)
    /\ UNCHANGED <<pc, resources, nodes, cursor, viewportTop, viewportSize>>

\* "tab"
KeyTab ==
    /\ pc = "run"
    /\ viewMode' = NextView(viewMode)
    /\ cursor' = 0
    /\ viewportTop' = 0
    /\ UNCHANGED <<pc, resources, nodes, viewportSize>>

\* "shift+tab"
KeyShiftTab ==
    /\ pc = "run"
    /\ viewMode' = PrevView(viewMode)
    /\ cursor' = 0
    /\ viewportTop' = 0
    /\ UNCHANGED <<pc, resources, nodes, viewportSize>>

\* "g"
KeyTop ==
    /\ pc = "run"
    /\ cursor' = 0
    /\ viewportTop' = 0
    /\ UNCHANGED <<pc, resources, nodes, viewMode, viewportSize>>

\* "G"
KeyBottom ==
    /\ pc = "run"
    /\ Adjusted(nodes, Len(getVisibleNodes(nodes)) - 1)
    /\ UNCHANGED <<pc, resources, nodes, viewMode, viewportSize>>

\* the loop that sets every flag to true whatever it is given
SetExpanded_True(ns, flag) ==
    [ i \in 1..Len(ns) |-> [ ns[i] EXCEPT !.Expanded = TRUE ] ]

\* for _, node := range m.nodes { node.Expanded = flag }: the loop ranges
\* over m.nodes, the top-level nodes
SetExpanded(ns, flag) ==
    [ i \in 1..Len(ns) |-> [ ns[i] EXCEPT !.Expanded = flag ] ]

\* "e"
KeyExpandAll ==
    /\ pc = "run"
    /\ nodes' = SetExpanded(nodes, TRUE)
    /\ UNCHANGED <<pc, resources, cursor, viewMode, viewportTop, viewportSize>>

\* "c" that also sends the cursor to the first node
KeyCollapseAll_ToTop ==
    /\ pc = "run"
    /\ nodes' = SetExpanded(nodes, FALSE)
    /\ cursor' = 0
    /\ UNCHANGED <<pc, resources, viewMode, viewportTop, viewportSize>>

\* "c"
KeyCollapseAll ==
    /\ pc = "run"
    /\ nodes' = SetExpanded(nodes, FALSE)
    /\ UNCHANGED <<pc, resources, cursor, viewMode, viewportTop, viewportSize>>

\* "ctrl+c", "q": tea.Quit ends the program
KeyQuit ==
    /\ pc = "run"
    /\ pc' = "quit"
    /\ UNCHANGED <<resources, nodes, cursor, viewMode, viewportTop, viewportSize>>

-----------------------------------------------------------------------------
(* The plans the viewer is run on.                                         *)

WithChange(res, before, after) == [ res EXCEPT !.Before = before, !.After = after ]

Tracked(res) == [ res EXCEPT !.IsTracked = TRUE ]

\* two resources of module m and one of the root module
PlanModule ==
    << WithChange(ResourceChange("x.2", "aws_a", "aws", "m", ActionUpdate, NilIndex, <<>>),
                  [ a |-> VNum(1), b |-> VNum(2) ], [ a |-> VNum(1), c |-> VNum(3) ]),
       WithChange(ResourceChange("x.1", "aws_a", "aws", "m", ActionCreate, NilIndex, <<>>),
                  NoAttrs, [ a |-> VMap([ b |-> VStr("v") ]) ]),
       ResourceChange("y.1", "gcp_b", "gcp", "", ActionDelete, NilIndex, <<>>) >>

\* root resources in two files, a delete relocated to its replacement and
\* a resource without a file
PlanFiles ==
    << ResourceChange("y.1", "aws_a", "aws", "", ActionCreate, IntIndex(0), <<"a.tf">>),
       ResourceChange("x.1", "aws_a", "aws", "", ActionDelete, IntIndex(0), <<>>),
       Tracked(ResourceChange("x.2", "gcp_b", "gcp", "", ActionUpdate, NilIndex, <<"d", "b.tf">>)),
       ResourceChange("z.1", "gcp_b", "gcp", "", ActionRead, NilIndex, <<>>) >>

\* root resources without files: top-level leaves only
PlanFlat ==
    << ResourceChange("x.1", "aws_a", "aws", "", ActionCreate, NilIndex, <<>>),
       WithChange(ResourceChange("x.2", "aws_a", "aws", "", ActionReplace, NilIndex, <<>>),
                  [ a |-> VStr("1") ], [ a |-> VNum(1), b |-> VList(<< VNull, VBool(TRUE) >>) ]),
       ResourceChange("y.1", "aws_a", "aws", "", ActionNoOp, NilIndex, <<>>),
       ResourceChange("z.1", "aws_a", "aws", "", ActionDelete, NilIndex, <<>>) >>

Plans == { <<>>, PlanModule, PlanFiles, PlanFlat }

-----------------------------------------------------------------------------
(* The viewer: NewModel on a plan, the first WindowSizeMsg (which sets the *)
(* row budget to the window height less ChromeRows), then key presses.     *)

Init ==
    /\ pc = "run"
    /\ resources \in Plans
    /\ nodes = buildTreeNodes(resources)
    /\ cursor = 0
    /\ viewMode = ViewChanges
    /\ viewportTop = 0
    /\ \E height \in (ChromeRows + 1)..(ChromeRows + MaxBudget) :
         viewportSize = height - ChromeRows

Next ==
    \/ KeyUp
    \/ KeyDown
    \/ KeyEnter
    \/ KeyTab
    \/ KeyShiftTab
    \/ KeyTop
    \/ KeyBottom
    \/ KeyExpandAll
    \/ KeyCollapseAll
    \/ KeyQuit

Spec == Init /\ [][Next]_vars

-----------------------------------------------------------------------------
(* The viewer in a window that is resized: the keys that run               *)
(* adjustViewport or reset the viewport, and tea.WindowSizeMsg.            *)

\* m.viewportSize = msg.Height - 10, for a height that leaves a row or more
WindowSizeMsg ==
    /\ pc = "run"
    /\ \E height \in (ChromeRows + 1)..(ChromeRows + MaxBudget) :
         viewportSize' = height - ChromeRows
    /\ UNCHANGED <<pc, resources, nodes, cursor, viewMode, viewportTop>>

NextResize ==
    \/ KeyUp
    \/ KeyDown
    \/ KeyEnter
    \/ KeyTop
    \/ KeyBottom
    \/ WindowSizeMsg

SpecResize == Init /\ [][NextResize]_vars

-----------------------------------------------------------------------------
(* The plans the ingestion hands over: resource changes with unique        *)
(* addresses.                                                              *)

AddressPool == << "x.1", "x.2", "y.1", "z.1" >>

\* a plan of at most MaxResources resources draws its addresses from the
\* first MaxResources of the pool
Addresses == { AddressPool[i] : i \in 1..MaxResources }

\* a resource type with its provider
Kinds == { <<"aws_a", "aws">>, <<"gcp_b", "gcp">> }

FilePaths == { <<>>, <<"a.tf">>, <<"d", "b.tf">> }

\* Type and Index decide the outcome only between a deleted resource
\* without a file and a created resource with one, both in the root module;
\* every other resource has the first type and no index.
Candidates(addr) ==
    { ResourceChange(addr, "aws_a", "aws", mod, act, NilIndex, path) :
        mod \in {"", "m"},
        act \in {ActionCreate, ActionUpdate, ActionDelete, ActionNoOp},
        path \in FilePaths }
    \cup
    { ResourceChange(addr, k[1], k[2], "", ActionDelete, idx, <<>>) :
        k \in Kinds, idx \in {NilIndex, IntIndex(0), StrIndex("0")} }
    \cup
    { ResourceChange(addr, k[1], k[2], "", ActionCreate, idx, path) :
        k \in Kinds, idx \in {NilIndex, IntIndex(0)}, path \in FilePaths \ {<<>>} }
    \cup
    { ResourceChange(addr, "aws_a", "aws", "root", act, NilIndex, <<>>) :
        act \in {ActionCreate, ActionDelete} }

-----------------------------------------------------------------------------
(* The tree builder on its own: the ingestion appends resource changes,    *)
(* then NewModel builds the forest.                                        *)

InitBuild ==
    /\ pc = "parse"
    /\ resources = <<>>
    /\ nodes = <<>>
    /\ cursor = 0
    /\ viewMode = ViewChanges
    /\ viewportTop = 0
    /\ viewportSize = 0

\* the parser appends one converted resource change
AppendResource ==
    /\ pc = "parse"
    /\ Len(resources) < MaxResources
    /\ \E addr \in Addresses \ { resources[i].Address : i \in 1..Len(resources) } :
         \E res \in Candidates(addr) :
            resources' = Append(resources, res)
    /\ UNCHANGED <<pc, nodes, cursor, viewMode, viewportTop, viewportSize>>

NewModel ==
    /\ pc = "parse"
    /\ pc' = "run"
    /\ nodes' = buildTreeNodes(resources)
    /\ cursor' = 0
    /\ viewMode' = ViewChanges
    /\ viewportTop' = 0
    /\ viewportSize' = DefaultViewportSize
    /\ UNCHANGED resources

NextBuild == AppendResource \/ NewModel

SpecBuild == InitBuild /\ [][NextBuild]_vars

-----------------------------------------------------------------------------
(* The second grouping pass on its own: plans of the root module whose     *)
(* resources differ in action, type, index and file, one of the files      *)
(* being named unknown.tf.                                                 *)

PairPaths == { <<>>, <<"a.tf">>, <<"d", "b.tf">>, <<"d", "unknown.tf">> }

PairCandidates(addr) ==
    { ResourceChange(addr, k[1], k[2], "", ActionDelete, idx, <<>>) :
        k \in Kinds, idx \in {NilIndex, IntIndex(0)} }
    \cup
    { ResourceChange(addr, k[1], k[2], "", ActionCreate, idx, path) :
        k \in Kinds, idx \in {NilIndex, IntIndex(0)}, path \in PairPaths }
    \cup
    { ResourceChange(addr, "aws_a", "aws", "", act, NilIndex, <<>>) :
        act \in {ActionUpdate, ActionReplace, ActionRead} }
    \cup
    { ResourceChange(addr, "aws_a", "aws", "", ActionUpdate, NilIndex, <<"a.tf">>),
      ResourceChange(addr, "aws_a", "aws", "root", ActionCreate, NilIndex, <<"a.tf">>),
      ResourceChange(addr, "aws_a", "aws", "m", ActionCreate, NilIndex, <<"a.tf">>) }

\* the parser appends one converted resource change
AppendPair ==
    /\ pc = "parse"
    /\ Len(resources) < MaxResources
    /\ \E addr \in Addresses \ { resources[i].Address : i \in 1..Len(resources) } :
         \E res \in PairCandidates(addr) :
            resources' = Append(resources, res)
    /\ UNCHANGED <<pc, nodes, cursor, viewMode, viewportTop, viewportSize>>

NextPair == AppendPair \/ NewModel

SpecPair == InitBuild /\ [][NextPair]_vars

-----------------------------------------------------------------------------
(* Moving down from the initial state: NewModel on a plan, the first       *)
(* WindowSizeMsg, then "down" presses only.  Every node stays collapsed    *)
(* and takes one line.                                                     *)

\* where a resource of a plan is declared: its module and its file
Shapes == { <<"", <<>>>>, <<"m", <<>>>>, <<"", <<"a.tf">>>>, <<"", <<"d", "b.tf">>>> }

\* a created resource per address of a prefix of the pool, each of a shape
PlansDown ==
    UNION { { [ i \in 1..n |->
                  ResourceChange(AddressPool[i], "aws_a", "aws", shape[i][1],
                                 ActionCreate, NilIndex, shape[i][2]) ] :
              shape \in [ 1..n -> Shapes ] } :
            n \in 0..Len(AddressPool) }

InitDown ==
    /\ pc = "run"
    /\ resources \in PlansDown
    /\ nodes = buildTreeNodes(resources)
    /\ cursor = 0
    /\ viewMode = ViewChanges
    /\ viewportTop = 0
    /\ \E height \in (ChromeRows + 1)..(ChromeRows + MaxBudget) :
         viewportSize = height - ChromeRows

NextDown == KeyDown

SpecDown == InitDown /\ [][NextDown]_vars

-----------------------------------------------------------------------------
(* The diff engine on its own: the ingestion hands over one resource       *)
(* change with its before and after attribute maps, NewModel builds the    *)
(* forest, and toggle-expand renders the details of the resource.          *)

\* one level of nesting more than the renderer descends
DeepNesting == MaxRenderDepth + 1

\* a value below n maps
RECURSIVE Nested(_, _)
Nested(value, n) ==
    IF n = 0 THEN value ELSE VMap([ a |-> Nested(value, n - 1) ])

\* the values of attribute a: every kind of scalar, strings and numbers
\* that print alike, strings and lists that differ past InlineLimit, maps
\* that differ in a key, and maps nested past the depth cap
AttrValues ==
    { VNull, VBool(TRUE), VNum(1), VStr("1"), VStr("<nil>"),
      VStr("long.a"), VStr("long.b"), VStr("wide.a"),
      VList(<< VStr("long.a") >>), VList(<< VStr("long.b") >>),
      VMap([ b |-> VNum(1) ]), VMap([ b |-> VNum(2) ]),
      Nested(VNum(1), DeepNesting), Nested(VNum(2), DeepNesting) }

\* a key the map does not hold
Absent == [kind |-> "absent"]

\* the attribute map that holds the keys given a value
AttrMap(choice) ==
    [ k \in { key \in DOMAIN choice : choice[key].kind # "absent" } |-> choice[k] ]

AttrMaps ==
    { AttrMap([ a |-> va, b |-> vb, c |-> vc ]) :
        va \in AttrValues \cup {Absent},
        vb \in {Absent, VNum(2)},
        vc \in {Absent, VNum(3)} }

\* the changes of a resource: created (no before), deleted (no after) or
\* updated
Changes ==
    { <<ActionCreate, NoAttrs, after>> : after \in AttrMaps }
    \cup { <<ActionDelete, before, NoAttrs>> : before \in AttrMaps }
    \cup { <<ActionUpdate, before, after>> : before \in AttrMaps, after \in AttrMaps }

InitDiff ==
    /\ pc = "parse"
    /\ \E change \in Changes :
         resources =
            << WithChange(ResourceChange("x.1", "aws_a", "aws", "", change[1], NilIndex, <<>>),
                          change[2], change[3]) >>
    /\ nodes = <<>>
    /\ cursor = 0
    /\ viewMode = ViewChanges
    /\ viewportTop = 0
    /\ viewportSize = 0

NextDiff == NewModel \/ KeyEnter

SpecDiff == InitDiff /\ [][NextDiff]_vars

-----------------------------------------------------------------------------
(* Reading a forest.                                                       *)

\* a grouping node (module or file header): its resource is synthetic and
\* carries the no-op action, which no resource of the forest has
IsGroup(node) == node.Resource.Action = ActionNoOp

\* the resources of the non-group nodes, depth first
RECURSIVE Leaves(_)
Leaves(forest) ==
    IF forest = <<>> THEN <<>>
    ELSE LET node == Head(forest)
         IN  (IF IsGroup(node) THEN <<>> ELSE <<node.Resource>>)
             \o Leaves(node.Children) \o Leaves(Tail(forest))

\* the top-level nodes that satisfy P, in order
TopLevel(forest, P(_)) == SelectSeq(forest, P)

IsModuleGroup(node) == IsGroup(node) /\ node.Resource.Type = "module"
IsFileGroup(node) == IsGroup(node) /\ node.Resource.Type = "file"

\* strictly ascending addresses along a sequence of nodes
AscendingAddresses(ns) ==
    \A i \in 1..Len(ns) - 1 : StrLess(ns[i].Resource.Address, ns[i + 1].Resource.Address)

Permute(rs, p) == [ i \in 1..Len(rs) |-> rs[p[i]] ]

-----------------------------------------------------------------------------
(* Claims about buildTreeNodes, under SpecBuild.                           *)

\* C4: the leaves of the forest, flattened depth first, are exactly the
\* input records whose action is not no-op, each exactly once.
C4_LeavesAreChangingRecords ==
    pc = "run" =>
        LET ls == Leaves(nodes)
            changing == changingResources(resources)
        IN  /\ Range(ls) = Range(changing)
            /\ Len(ls) = Len(changing)
            /\ \A i, j \in 1..Len(ls) : ls[i] = ls[j] => i = j

\* a forest built from a no-op record, a grouped record and an unplaced
\* delete that found no replacement
C4_Witness ==
    /\ pc = "run"
    /\ \E i \in 1..Len(resources) : resources[i].Action = ActionNoOp
    /\ \E i \in 1..Len(nodes) : IsGroup(nodes[i])
    /\ \E i \in 1..Len(nodes) :
         ~IsGroup(nodes[i]) /\ nodes[i].Resource.Action = ActionDelete

\* C5: every permutation of the input list yields the same forest.
C5_OrderIndependent ==
    pc = "run" =>
        \A p \in Permutations(1..Len(resources)) :
            buildTreeNodes(Permute(resources, p)) = nodes

\* three records given in descending address order, two of them in one group
C5_Witness ==
    /\ pc = "run"
    /\ Len(resources) = 3
    /\ StrLess(resources[3].Address, resources[2].Address)
    /\ StrLess(resources[2].Address, resources[1].Address)
    /\ \E i \in 1..Len(nodes) : Len(nodes[i].Children) = 2

\* C6: module groups ascend by module name, file groups ascend by file
\* name, and the children of every group ascend strictly by address.
C6_SortedForest ==
    pc = "run" =>
        /\ AscendingAddresses(TopLevel(nodes, IsModuleGroup))
        /\ AscendingAddresses(TopLevel(nodes, IsFileGroup))
        /\ \A i \in 1..Len(nodes) : AscendingAddresses(nodes[i].Children)

\* C7: rebuilding from the leaves of the forest yields the same forest.
C7_Idempotent ==
    pc = "run" => buildTreeNodes(Leaves(nodes)) = nodes

\* a forest with a file group that holds a relocated delete, whose leaves
\* are not in the order of the input
C7_Witness ==
    /\ pc = "run"
    /\ Leaves(nodes) # changingResources(resources)
    /\ \E i \in 1..Len(nodes) :
         /\ IsFileGroup(nodes[i])
         /\ \E j \in 1..Len(nodes[i].Children) :
              nodes[i].Children[j].Resource.FilePath = <<>>

\* the non-no-op records of module M, in address order
RecordsOfModule(M) ==
    SortByAddress(SelectSeq(changingResources(resources), LAMBDA res : res.Module = M))

\* the default partition: the non-no-op records without a module, in
\* address order
DefaultPartition == RecordsOfModule("")

C10_ForestShape ==
    pc = "run" =>
        /\ \A i \in 1..Len(nodes) :
             LET node == nodes[i]
             IN  /\ node.Level = 0
                 /\ IF IsGroup(node)
                    THEN /\ Len(node.Children) >= 1
                         /\ \A j \in 1..Len(node.Children) :
                              /\ ~IsGroup(node.Children[j])
                              /\ node.Children[j].Level = 1
                              /\ node.Children[j].Children = <<>>
                    ELSE node.Children = <<>>
        /\ LET ls == Leaves(nodes)
           IN  \A i, j \in 1..Len(ls) : ls[i].Address = ls[j].Address => i = j

\* a forest with a module group, a file group and a top-level leaf
C10_Witness ==
    /\ pc = "run"
    /\ \E i \in 1..Len(nodes) : IsModuleGroup(nodes[i])
    /\ \E i \in 1..Len(nodes) : IsFileGroup(nodes[i])
    /\ \E i \in 1..Len(nodes) : ~IsGroup(nodes[i])

-----------------------------------------------------------------------------
(* Claims about Model.Update and Model.adjustViewport, under Spec.         *)

\* the rendered line on which the header of the cursor node lies
CursorLineStart == SumLines(getVisibleNodes(nodes), cursor)

CursorValid == 0 <= cursor /\ cursor <= Len(getVisibleNodes(nodes)) - 1

\* C1: in the Changes view, after any sequence of key events, the header
\* line of the visible node at the cursor lies in
\* [viewportTop, viewportTop + viewportSize).
C1_HeaderInViewport ==
    (pc = "run" /\ viewMode = ViewChanges /\ getVisibleNodes(nodes) # <<>>) =>
        /\ CursorValid
        /\ viewportTop <= CursorLineStart
        /\ CursorLineStart < viewportTop + viewportSize

\* C2: move-down and move-up clamp and never wrap: from a cursor within
\* [0, n-1], move-down adds one below n-1 and changes nothing at n-1;
\* move-up subtracts one above 0 and changes nothing at 0.
C2_MoveClamps ==
    [][ (pc = "run" /\ CursorValid) =>
            /\ KeyDown =>
                 cursor' = (IF cursor < Len(getVisibleNodes(nodes)) - 1
                            THEN cursor + 1 ELSE cursor)
            /\ KeyUp =>
                 cursor' = (IF cursor > 0 THEN cursor - 1 ELSE cursor) ]_vars

\* the cursor has moved down to the last of several visible nodes, where
\* the next move-down is the clamped one
C2_Witness ==
    /\ pc = "run"
    /\ Len(getVisibleNodes(nodes)) >= 3
    /\ cursor = Len(getVisibleNodes(nodes)) - 1
    /\ viewportTop > 0

\* C3: with an empty forest every navigation event is a no-op: the cursor
\* and viewportTop stay 0 and no node is indexed.
C3_EmptyForestNoOp ==
    nodes = <<>> => (cursor = 0 /\ viewportTop = 0 /\ pc # "panic")

-----------------------------------------------------------------------------
(* Reading the flags of a forest.                                          *)

\* every node of a forest, visible or not, by its path
AllPaths(ns) ==
    { <<i, 0>> : i \in 1..Len(ns) }
    \cup UNION { { <<i, j>> : j \in 1..Len(ns[i].Children) } : i \in 1..Len(ns) }

\* a node with every Expanded flag below and at it cleared
Unflagged(node) ==
    [ node EXCEPT !.Expanded = FALSE,
                  !.Children = [ j \in 1..Len(node.Children) |->
                                   [ node.Children[j] EXCEPT !.Expanded = FALSE ] ] ]

\* two forests that differ in Expanded flags at most
SameNodes(ns, ms) ==
    /\ Len(ns) = Len(ms)
    /\ \A i \in 1..Len(ns) : Unflagged(ns[i]) = Unflagged(ms[i])

\* every node of the forest carries the flag
AllFlags(ns, flag) == \A path \in AllPaths(ns) : NodeAt(ns, path).Expanded = flag

\* depth-first flattening: a node, then its children when its own flag is set
RECURSIVE Flatten(_)
Flatten(forest) ==
    IF forest = <<>> THEN <<>>
    ELSE LET node == Head(forest)
         IN  <<node>>
             \o (IF node.Expanded THEN Flatten(node.Children) ELSE <<>>)
             \o Flatten(Tail(forest))

\* the visible node at the cursor
CursorPath == VisiblePaths(nodes)[cursor + 1]
CursorNode == NodeAt(nodes, CursorPath)

-----------------------------------------------------------------------------
(* Claims about expansion and view switching, under Spec.                  *)

\* C11: toggle-expand in the Changes view with a valid cursor flips the
\* Expanded flag of exactly the visible node at the cursor; every other
\* flag, the cursor and the view mode are unchanged.
C11_ToggleFlipsCursorNode ==
    [][ (pc = "run" /\ viewMode = ViewChanges /\ CursorValid /\ KeyEnter) =>
            /\ SameNodes(nodes', nodes)
            /\ \A path \in AllPaths(nodes) :
                 NodeAt(nodes', path).Expanded =
                    (IF path = CursorPath
                     THEN ~NodeAt(nodes, path).Expanded
                     ELSE NodeAt(nodes, path).Expanded)
            /\ cursor' = cursor
            /\ viewMode' = viewMode ]_vars

\* toggle-expand has acted on a child of a group: the cursor is on a child
\* whose flag is set, which no other event sets
C11_Witness ==
    /\ pc = "run"
    /\ viewMode = ViewChanges
    /\ CursorValid
    /\ CursorPath[2] > 0
    /\ CursorNode.Expanded

\* C12: expand-all sets the Expanded flag of every node of the forest,
\* children of groups included, to true; collapse-all sets every such flag
\* to false.
C12_ExpandAllSetsEveryFlag ==
    [][ /\ KeyExpandAll => AllFlags(nodes', TRUE)
        /\ KeyCollapseAll => AllFlags(nodes', FALSE) ]_vars

\* C13: expand-all and collapse-all leave the cursor index and the view
\* mode as they were.
C13_ExpandAllKeepsCursor ==
    [][ (KeyExpandAll \/ KeyCollapseAll) =>
            (cursor' = cursor /\ viewMode' = viewMode) ]_vars

\* collapse-all has acted below an expanded group and left the cursor where
\* it was, past the end of the visible sequence
C13_Witness ==
    /\ pc = "run"
    /\ getVisibleNodes(nodes) # <<>>
    /\ cursor >= Len(getVisibleNodes(nodes))

\* the forest after expand-all followed by collapse-all
ExpandThenCollapse == SetExpanded(SetExpanded(nodes, TRUE), FALSE)

\* the visible sequence and the node the cursor resolves to are those of
\* the forest before expand-all, collapse-all
RestoredByExpandThenCollapse ==
    /\ VisiblePaths(ExpandThenCollapse) = VisiblePaths(nodes)
    /\ SameNodes(ExpandThenCollapse, nodes)
    /\ CursorValid =>
         /\ cursor < Len(VisiblePaths(ExpandThenCollapse))
         /\ VisiblePaths(ExpandThenCollapse)[cursor + 1] = CursorPath

\* C14, as stated: from any reachable state, expand-all followed by
\* collapse-all restores the visible node sequence and the node at the
\* cursor.
C14_ExpandCollapseRestores ==
    pc = "run" => RestoredByExpandThenCollapse

\* C14, amended: from any reachable state in which no top-level node is
\* expanded, expand-all followed by collapse-all restores the visible node
\* sequence and the node at the cursor.
C14_ExpandCollapseRestoresCollapsed ==
    (pc = "run" /\ \A i \in 1..Len(nodes) : ~nodes[i].Expanded) =>
        RestoredByExpandThenCollapse

\* no top-level node is expanded, a group holds an expanded child, and the
\* cursor is on a node below the first
C14_Witness ==
    /\ pc = "run"
    /\ \A i \in 1..Len(nodes) : ~nodes[i].Expanded
    /\ \E i \in 1..Len(nodes) :
         \E j \in 1..Len(nodes[i].Children) : nodes[i].Children[j].Expanded
    /\ CursorValid
    /\ cursor > 0

C16_SwitchViewResets ==
    [][ (KeyTab \/ KeyShiftTab) =>
            /\ cursor' = 0
            /\ viewportTop' = 0
            /\ nodes' = nodes
            /\ viewportSize' = viewportSize ]_vars

\* a view switched to after a group and one of its children were expanded:
\* the cursor and the viewport are back at 0 and the flags are kept
C16_Witness ==
    /\ pc = "run"
    /\ viewMode = ViewErrors
    /\ cursor = 0
    /\ viewportTop = 0
    /\ \E i \in 1..Len(nodes) :
         /\ nodes[i].Expanded
         /\ \E j \in 1..Len(nodes[i].Children) : nodes[i].Children[j].Expanded

\* C17: getVisibleNodes is the depth-first flattening in which the
\* children of a node are present iff the node's own Expanded flag is true,
\* whatever the flags of the children.
C17_VisibleIsFlattening ==
    pc = "run" =>
        /\ getVisibleNodes(nodes) = Flatten(nodes)
        /\ \A i \in 1..Len(nodes) :
             \A j \in 1..Len(nodes[i].Children) :
                (<<i, j>> \in Range(VisiblePaths(nodes))) <=> nodes[i].Expanded

\* an expanded group with an expanded child and a collapsed child, beside a
\* collapsed group with an expanded child
C17_Witness ==
    /\ pc = "run"
    /\ \E i \in 1..Len(nodes) :
         /\ nodes[i].Expanded
         /\ \E j, k \in 1..Len(nodes[i].Children) :
              nodes[i].Children[j].Expanded /\ ~nodes[i].Children[k].Expanded
    /\ \E i \in 1..Len(nodes) :
         /\ ~nodes[i].Expanded
         /\ \E j \in 1..Len(nodes[i].Children) : nodes[i].Children[j].Expanded

-----------------------------------------------------------------------------
(* Claims about the viewport after an event, under Spec.                   *)

\* the cursor is the index of a visible node
ValidAt(ns, cur) == 0 <= cur /\ cur <= Len(getVisibleNodes(ns)) - 1

\* the rendered lines of the header and of the last line of the node at a
\* cursor
LineStartAt(ns, cur) == SumLines(getVisibleNodes(ns), cur)
LinesAt(ns, cur) == NodeLines(getVisibleNodes(ns)[cur + 1])
LineEndAt(ns, cur) == LineStartAt(ns, cur) + LinesAt(ns, cur) - 1

\* the node at the cursor is within the row budget
FitsBudgetAt(ns, cur, size) ==
    /\ size >= 1
    /\ ValidAt(ns, cur)
    /\ LinesAt(ns, cur) <= size

\* every line of the node at the cursor is in the window
WholeNodeVisibleAt(ns, cur, top, size) ==
    /\ top <= LineStartAt(ns, cur)
    /\ LineEndAt(ns, cur) < top + size

\* a state that move-up or move-down leaves as it is: the guard of the
\* event is false and adjustViewport does not run
MoveIsNoOpAt(ns, cur) ==
    \/ cur <= 0
    \/ cur >= Len(getVisibleNodes(ns)) - 1

\* the node at the cursor takes more lines than the row budget
OversizedAt(ns, cur, size) ==
    /\ ValidAt(ns, cur)
    /\ LinesAt(ns, cur) > size

\* C18: immediately after move-up, move-down, jump-bottom or toggle-expand
\* with a row budget of at least 1, if the cursor node takes no more lines
\* than the budget, every line of it lies in
\* [viewportTop, viewportTop + viewportSize).  The state after the event is
\* the primed one: reached by a step of the event, or a state a move event
\* leaves as it is.
C18_WholeNodeVisible ==
    [][ ( /\ pc' = "run"
          /\ KeyUp \/ KeyDown \/ KeyBottom \/ KeyEnter \/ MoveIsNoOpAt(nodes', cursor')
          /\ FitsBudgetAt(nodes', cursor', viewportSize') )
        => WholeNodeVisibleAt(nodes', cursor', viewportTop', viewportSize') ]_vars

\* C19: whenever adjustViewport runs and the cursor node takes more lines
\* than the row budget, the resulting viewportTop is the line of the
\* node's header: after every step of an event that runs it, and for every
\* cursor it can be run with on a reachable forest.
C19_OversizedFromHeader ==
    [][ /\ ( /\ pc' = "run"
             /\ KeyUp \/ KeyDown \/ KeyBottom \/ KeyEnter
             /\ OversizedAt(nodes', cursor', viewportSize') )
           => viewportTop' = LineStartAt(nodes', cursor')
        /\ (pc = "run" /\ getVisibleNodes(nodes) # <<>>) =>
             \A c \in -1..Len(getVisibleNodes(nodes)) :
                LET m == adjustViewport(nodes, c, viewportTop, viewportSize)
                IN  OversizedAt(nodes, m.cursor, viewportSize)
                        => m.viewportTop = LineStartAt(nodes, m.cursor) ]_vars

\* the cursor is on an oversized node below the first line and the window
\* starts at its header
C19_Witness ==
    /\ pc = "run"
    /\ OversizedAt(nodes, cursor, viewportSize)
    /\ LineStartAt(nodes, cursor) > 0
    /\ viewportTop = LineStartAt(nodes, cursor)

\* C20: a move-down event never yields a viewportTop smaller than the one
\* before it, and a move-up event never yields a larger one.
C20_MonotonicScroll ==
    [][ /\ KeyDown => viewportTop' >= viewportTop
        /\ KeyUp => viewportTop' <= viewportTop ]_vars

-----------------------------------------------------------------------------
(* Claims about the scrolling rule.                                        *)

Min(a, b) == IF a < b THEN a ELSE b
Max(a, b) == IF a > b THEN a ELSE b

\* C21: from the initial state over a forest of one-line nodes, after N
\* consecutive move-down events with row budget B >= 1 the cursor is
\* min(N, visible count - 1) and viewportTop is max(0, cursor - B + 1):
\* every move-down adds one to the cursor up to the last node and leaves
\* viewportTop at that value.  Under SpecDown.
C21_DownScrollsByOne ==
    [][ /\ cursor' = Min(cursor + 1, Len(getVisibleNodes(nodes)) - 1)
        /\ LinesAt(nodes', cursor') = 1
        /\ viewportTop' = Max(0, cursor' - viewportSize' + 1) ]_vars

\* the cursor has reached the last of four nodes with a budget of two or
\* three rows: the window has scrolled, and not by the whole budget
C21_Witness ==
    /\ pc = "run"
    /\ Len(getVisibleNodes(nodes)) = 4
    /\ cursor = 3
    /\ viewportSize \in {2, 3}
    /\ viewportTop = 4 - viewportSize

\* the update rule of adjustViewport with a given choice for a node that
\* ends below the window
UpdateRule(below(_, _), ns, cur, top, size) ==
    LET start == LineStartAt(ns, cur)
        end == LineEndAt(ns, cur)
    IN  IF start < top THEN start
        ELSE IF end >= top + size THEN below(start, end - size + 1)
        ELSE top

\* adjustViewport on the forest, viewportTop and row budget of the state,
\* run with every cursor, sets viewportTop by the rule
FollowsRule(below(_, _)) ==
    (pc = "run" /\ getVisibleNodes(nodes) # <<>>) =>
        \A c \in -1..Len(getVisibleNodes(nodes)) :
            LET m == adjustViewport(nodes, c, viewportTop, viewportSize)
            IN  m.viewportTop = UpdateRule(below, nodes, m.cursor, viewportTop, viewportSize)

\* C22, as stated: adjustViewport sets viewportTop to the start line of
\* the cursor node when that is above viewportTop; otherwise, when the end
\* line is at or past viewportTop + viewportSize, to
\* max(start line, end line - viewportSize + 1); otherwise leaves it.
C22_UpdateRuleMax == FollowsRule(Max)

\* C22, amended: as stated, with min(start line, end line - viewportSize
\* + 1) for a node that ends below the window.
C22_UpdateRuleMin == FollowsRule(Min)

\* the window has scrolled down to the last line of a cursor node that
\* takes fewer lines than the budget: the least scroll, not the header at
\* the top row
C22_Witness ==
    /\ pc = "run"
    /\ ValidAt(nodes, cursor)
    /\ viewportTop > 0
    /\ LinesAt(nodes, cursor) < viewportSize
    /\ LineEndAt(nodes, cursor) = viewportTop + viewportSize - 1

-----------------------------------------------------------------------------
(* Claims about the diff engine, under SpecDiff.                           *)

\* the viewer has rendered the details of the resource: its node is
\* expanded
Rendered == pc = "run" /\ Len(nodes) = 1 /\ nodes[1].Expanded

\* the attribute maps of the resource
Before == resources[1].Before
After == resources[1].After
BothKeys == DOMAIN Before \cap DOMAIN After

\* the details show a diff
DiffRendered == Rendered /\ nodes[1].Resource.Action = ActionUpdate

\* the entries of a diff: its lines at depth 0 that carry a key
Entries(lines) == SelectSeq(lines, LAMBDA line : line.depth = 0 /\ line.key # "")

\* the entries of a key
EntriesOf(lines, k) == SelectSeq(Entries(lines), LAMBDA line : line.key = k)

\* C23: comparing an attribute map with itself reports no difference:
\* renderAttributeDiff(X, X) writes no added, removed or changed entry.
C23_SelfDiffEmpty ==
    Rendered =>
        /\ renderAttributeDiff(Before, Before) = <<>>
        /\ renderAttributeDiff(After, After) = <<>>
        /\ Before = After => renderAttributeDiff(Before, After) = <<>>

\* the rendered diff of a resource whose before and after maps are the
\* same and hold a nested map and a number
C23_Witness ==
    /\ DiffRendered
    /\ Before = After
    /\ DOMAIN Before = { "a", "b" }
    /\ Before["a"].kind = "map"

\* a line with added and removed, and before and after, exchanged
Swapped(line) ==
    CASE line.prefix = "+" -> [ line EXCEPT !.prefix = "-" ]
      [] line.prefix = "-" -> [ line EXCEPT !.prefix = "+" ]
      [] line.prefix \in { "~", "|" } /\ Len(line.text) = 2 ->
            [ line EXCEPT !.text = << line.text[2], line.text[1] >> ]
      [] OTHER -> line

\* C24: diff(A, B) and diff(B, A) cover the same keys in the same order;
\* an added entry of one is a removed entry of the other with the same
\* value, and a changed entry is in both with before and after exchanged.
C24_SwapSymmetric ==
    Rendered =>
        LET forward == renderAttributeDiff(Before, After)
        IN  renderAttributeDiff(After, Before)
              = [ i \in 1..Len(forward) |-> Swapped(forward[i]) ]

\* a rendered diff with a removed key, an added key and a changed key
C24_Witness ==
    /\ DiffRendered
    /\ "b" \in DOMAIN Before \ DOMAIN After
    /\ "c" \in DOMAIN After \ DOMAIN Before
    /\ "a" \in BothKeys
    /\ EntriesOf(renderAttributeDiff(Before, After), "a") # <<>>

\* an entry shows a value: a scalar in full, a map or list by its bracket
EntryShows(line, value) ==
    IF value.kind \in { "map", "list" }
    THEN Len(line.text) = 1 /\ line.text[1].kind = "punct"
    ELSE line.text = << value >>

C26_ChangedIffNotDeepEqual ==
    Rendered =>
        \A k \in BothKeys :
            LET lines == renderDiffComparison(k, Before[k], After[k], 0)
            IN  /\ (lines = <<>>) <=> (Before[k] = After[k])
                /\ lines # <<>> => (lines[1].prefix = "~" /\ lines[1].key = k)

\* C27: when a key of both maps holds maps (or lists) that differ, the
\* diff descends into them and writes nested entries one level down,
\* rather than one changed entry for the whole value.
C27_CompositesRecursed ==
    Rendered =>
        \A k \in BothKeys :
            ( /\ Before[k].kind = After[k].kind
              /\ Before[k].kind \in { "map", "list" }
              /\ Before[k] # After[k] )
            => \E line \in Range(renderDiffComparison(k, Before[k], After[k], 0)) :
                  line.depth >= 1

\* the levels of nesting below a value
RECURSIVE Height(_)
Height(value) ==
    LET below == IF value.kind = "map"
                 THEN { Height(value.m[k]) : k \in DOMAIN value.m }
                 ELSE IF value.kind = "list"
                      THEN { Height(value.l[i]) : i \in 1..Len(value.l) }
                      ELSE {}
    IN  IF below = {} THEN 0
        ELSE 1 + CHOOSE h \in below : \A g \in below : g <= h

\* no line lies below the cap, and a line one level past it is the marker
Capped(lines) ==
    \A i \in 1..Len(lines) :
        /\ lines[i].depth <= MaxRenderDepth + 1
        /\ lines[i].depth = MaxRenderDepth + 1 => lines[i].text = << DeeplyNested >>

HasMarker(lines) ==
    \E i \in 1..Len(lines) : lines[i].text = << DeeplyNested >>

\* C28: a value nested deeper than MaxRenderDepth below a top-level
\* attribute is replaced by one marker line and nothing below it is
\* written, when an attribute map is rendered (renderValue), when a key is
\* added or removed (renderDiffValue) and when a key of both maps has
\* changed (renderDiffComparison).
C28_DepthCap ==
    Rendered =>
        /\ Capped(renderAttributes(After))
        /\ Capped(renderAttributeDiff(Before, After))
        /\ \A k \in DOMAIN After :
             Height(After[k]) > MaxRenderDepth =>
                /\ HasMarker(renderValue(k, After[k], 0))
                /\ HasMarker(renderDiffValue("+", k, After[k], 0))
        /\ \A k \in BothKeys :
             ( /\ Before[k] # After[k]
               /\ Height(Before[k]) > MaxRenderDepth \/ Height(After[k]) > MaxRenderDepth )
             => HasMarker(renderDiffComparison(k, Before[k], After[k], 0))

\* C29: the changed/unchanged decision is taken on the values before they
\* are cut for display: two values of a key that differ but are the same
\* once cut to InlineLimit yield a changed entry, and equal values longer
\* than InlineLimit yield none.
C29_EqualityBeforeTruncation ==
    Rendered =>
        \A k \in BothKeys :
            LET before == FormatValue(Before[k])
                after == FormatValue(After[k])
                lines == renderDiffComparison(k, Before[k], After[k], 0)
            IN  /\ ( /\ before # after
                     /\ Truncate(before, InlineLimit) = Truncate(after, InlineLimit) )
                   => (lines # <<>> /\ lines[1].prefix = "~" /\ lines[1].key = k)
                /\ (Before[k] = After[k] /\ Len(before) > InlineLimit) => lines = <<>>

\* the rendered diff of two lists that differ past InlineLimit: the entry
\* shows the same bytes on both sides
C29_Witness ==
    /\ DiffRendered
    /\ "a" \in BothKeys
    /\ Before["a"] = VList(<< VStr("long.a") >>)
    /\ After["a"] = VList(<< VStr("long.b") >>)
    /\ LET lines == renderDiffComparison("a", Before["a"], After["a"], 0)
       IN  Len(lines) = 1 /\ lines[1].text[1] = lines[1].text[2]

-----------------------------------------------------------------------------
(* Claims about indexMatches, under SpecBuild.                             *)

\* the indices of the resources handed over
Indices == { resources[i].Index : i \in 1..Len(resources) }

-----------------------------------------------------------------------------
(* Claims about the second grouping pass, under SpecPair.                  *)

\* the non-no-op records without a module
DefaultRecords == { res \in Range(resources) : res.Module = "" /\ res.Action # ActionNoOp }

\* the records without a location
Unplaced(res) == res.FilePath = <<>>

\* the top-level positions of the file headers and of a record
FileHeaders == { i \in 1..Len(nodes) : IsFileGroup(nodes[i]) }
TopLevelOf(res) == { i \in 1..Len(nodes) : ~IsGroup(nodes[i]) /\ nodes[i].Resource = res }

\* the file headers a record is a child of
HeadersOf(res) ==
    { i \in FileHeaders : \E j \in 1..Len(nodes[i].Children) :
                             nodes[i].Children[j].Resource = res }

\* two records are in one file group: children of one header, or leaves of
\* a forest whose only file group is shown without its header
InOneFileGroup(res, other) ==
    \/ HeadersOf(res) \cap HeadersOf(other) # {}
    \/ FileHeaders = {} /\ TopLevelOf(res) # {} /\ TopLevelOf(other) # {}

\* the created records a deleted record can adopt the location of
Replacements(deleted) ==
    { res \in DefaultRecords :
        /\ res.Action = ActionCreate
        /\ res.Type = deleted.Type
        /\ indexMatches(res.Index, deleted.Index)
        /\ ~Unplaced(res) }

FirstByAddress(S) == CHOOSE res \in S : \A other \in S \ {res} : StrLess(res.Address, other.Address)

\* C31: an unplaced delete record of the default partition is in the file
\* group of a create record of the partition with the same type, a
\* matching index and a location, the first such record in ascending
\* address order; when there is none it stays an unplaced leaf.
C31_ReplacementPairing ==
    pc = "run" =>
        \A deleted \in DefaultRecords :
            (deleted.Action = ActionDelete /\ Unplaced(deleted)) =>
                IF Replacements(deleted) = {}
                THEN TopLevelOf(deleted) # {} /\ HeadersOf(deleted) = {}
                ELSE InOneFileGroup(deleted, FirstByAddress(Replacements(deleted)))

\* C32: when no record has a location, the records of the default
\* partition are level-0 leaves in ascending address order and the forest
\* has no file header.
C32_NoLocationsUngrouped ==
    (pc = "run" /\ \A res \in Range(resources) : Unplaced(res)) =>
        LET leaves == SelectSeq(nodes, LAMBDA node : ~IsGroup(node) /\ node.Resource.Module = "")
        IN  /\ FileHeaders = {}
            /\ { leaves[i].Resource : i \in 1..Len(leaves) } = DefaultRecords
            /\ Len(leaves) = Cardinality(DefaultRecords)
            /\ \A i \in 1..Len(leaves) : leaves[i].Level = 0 /\ leaves[i].Children = <<>>
            /\ AscendingAddresses(leaves)

\* the forest of three records without a location, handed over out of
\* address order, a deleted one among them
C32_Witness ==
    /\ pc = "run"
    /\ Len(resources) = MaxResources
    /\ \A res \in Range(resources) : Unplaced(res) /\ res.Module = ""
    /\ \E res \in Range(resources) : res.Action = ActionDelete
    /\ \E res \in Range(resources) : res.Action = ActionCreate
    /\ StrLess(resources[2].Address, resources[1].Address)
    /\ Len(nodes) = MaxResources

\* C38: an unplaced record whose action is create, update, replace or read
\* is never a child of a file group, and every record left unplaced is a
\* level-0 leaf after every file group.
C38_OnlyDeletesRelocated ==
    pc = "run" =>
        \A res \in DefaultRecords :
            Unplaced(res) =>
                /\ res.Action # ActionDelete => HeadersOf(res) = {}
                /\ HeadersOf(res) = {} =>
                     /\ TopLevelOf(res) # {}
                     /\ \A i \in TopLevelOf(res) :
                          nodes[i].Level = 0 /\ \A h \in FileHeaders : h < i

\* a forest where a deleted record has moved under the header of its
\* replacement and an unplaced replace record of the same type and index
\* is a leaf after the header
C38_Witness ==
    /\ pc = "run"
    /\ \E deleted, other \in DefaultRecords :
         /\ deleted.Action = ActionDelete /\ Unplaced(deleted)
         /\ HeadersOf(deleted) # {}
         /\ other.Action = ActionReplace /\ Unplaced(other)
         /\ other.Type = deleted.Type /\ indexMatches(other.Index, deleted.Index)
         /\ \A i \in TopLevelOf(other) : \A h \in FileHeaders : h < i
         /\ TopLevelOf(other) # {}

-----------------------------------------------------------------------------
(* Claims about the views, the window and the displayed lines.             *)

\* C33: while the active view is Errors or Warnings, Enter/Space changes
\* no Expanded flag of the changes forest.
C33_ToggleOnlyInChanges ==
    [][ (KeyEnter /\ viewMode # ViewChanges) => nodes' = nodes ]_vars

\* C34: after a window-size event that changes the row budget, the header
\* line of the cursor node lies in [viewportTop, viewportTop + viewportSize).
C34_ResizeKeepsHeader ==
    [][ (viewportSize' # viewportSize /\ getVisibleNodes(nodes') # <<>>) =>
            /\ viewportTop' <= LineStartAt(nodes', cursor')
            /\ LineStartAt(nodes', cursor') < viewportTop' + viewportSize' ]_vars

\* C35: the line count adjustViewport uses for a visible node equals the
\* number of lines renderChangesView appends for it, the total of
\* getTotalRenderedLines is the length of the displayed line list, and the
\* line offset of a valid cursor is the index of its header in that list.
C35_CountAgreesWithDisplay ==
    pc = "run" =>
        LET visibleNodes == getVisibleNodes(nodes)
        IN  /\ \A k \in 1..Len(visibleNodes) :
                 /\ NodeLines(visibleNodes[k]) = Len(linesOfNode(visibleNodes[k], k - 1 = cursor))
                 /\ allLines(nodes, cursor)[SumLines(visibleNodes, k - 1) + 1]
                      = renderTreeNode(visibleNodes[k], k - 1 = cursor)
            /\ getTotalRenderedLines(nodes) = Len(allLines(nodes, cursor))
            /\ CursorValid =>
                 allLines(nodes, cursor)[CursorLineStart + 1]
                   = renderTreeNode(visibleNodes[cursor + 1], TRUE)

\* a cursor below an expanded resource with file information and below an
\* expanded group, its header shown in the window
C35_Witness ==
    /\ pc = "run"
    /\ CursorValid
    /\ cursor >= 2
    /\ \E k \in 1..cursor :
         LET node == getVisibleNodes(nodes)[k]
         IN  node.Expanded /\ node.Resource.FilePath # <<>> /\ NodeLines(node) > 5
    /\ \E i \in 1..Len(nodes) : nodes[i].Expanded /\ nodes[i].Children # <<>>
    /\ renderTreeNode(getVisibleNodes(nodes)[cursor + 1], TRUE)
         \in Range(renderChangesView(nodes, cursor, viewportTop, viewportSize))

\* C36: after any sequence of events the cursor is an index of the visible
\* node sequence whenever that sequence is not empty.
C36_CursorAlwaysValid ==
    (pc = "run" /\ getVisibleNodes(nodes) # <<>>) =>
        (0 <= cursor /\ cursor <= Len(getVisibleNodes(nodes)) - 1)

\* C37: after any sequence of events viewportTop >= 0 and, when a node is
\* visible, viewportTop is below the number of rendered lines, so that the
\* window shows a line.
C37_ViewportInContent ==
    pc = "run" =>
        /\ viewportTop >= 0
        /\ getVisibleNodes(nodes) # <<>> =>
             /\ viewportTop < getTotalRenderedLines(nodes)
             /\ viewportSize >= 1 =>
                  renderChangesView(nodes, cursor, viewportTop, viewportSize) # <<>>

====
